---- MODULE Spec2Model ----
(***************************************************************************)
(* The cellular-automaton engine and lifecycle of LifeMatrix               *)
(* (src/life_matrix.cpp, src/life_matrix.h).                               *)
(*                                                                         *)
(* The component object is the record lm, whose fields carry the names of  *)
(* the C++ members.  Every method is an operator from the object before    *)
(* the call (and the value millis() returns during it) to the object       *)
(* after it, so that a method which calls another one is the composition   *)
(* of the two operators.  A handler runs within one reading of the         *)
(* millisecond clock: all millis() calls of one handler return now.        *)
(***************************************************************************)
EXTENDS Integers, Sequences, FiniteSets, TLC

VARIABLES
    lm,     \* the LifeMatrix object: a record of its member fields
    now     \* the value of millis(), the monotonic millisecond clock

vars == <<lm, now>>

(***************************************************************************)
(* Program constants.                                                      *)
(***************************************************************************)
HistoryLen == 30
LowPopulationFloor == 58
MaxAge == 255

\* uint8_t is 8 bits wide
UInt8Range == 2^8

\* a - b in unsigned long arithmetic.  The clock of the model stays far below
\* 2^32, so a >= b gives the plain difference; a < b gives 2^32 - (b - a) in the
\* code, which is beyond the integers of the model checker and beyond every
\* duration it is compared with: WrappedElapsed stands for it.
WrappedElapsed == 2147483647

USub(a, b) == IF a >= b THEN a - b ELSE WrappedElapsed

Min(a, b) == IF a < b THEN a ELSE b

\* the dimensions of the grid until set_grid_dimensions is called
GRID_WIDTH == 32
GRID_HEIGHT == 120

\* enum PatternType
PATTERN_RANDOM == "PATTERN_RANDOM"
PATTERN_R_PENTOMINO == "PATTERN_R_PENTOMINO"
PATTERN_ACORN == "PATTERN_ACORN"
PATTERN_GLIDER == "PATTERN_GLIDER"
PATTERN_DIEHARD == "PATTERN_DIEHARD"
PATTERN_MIXED == "PATTERN_MIXED"

PatternType ==
    {PATTERN_RANDOM, PATTERN_R_PENTOMINO, PATTERN_ACORN, PATTERN_GLIDER,
     PATTERN_DIEHARD, PATTERN_MIXED}

\* enum UIMode
AUTO_CYCLE == "AUTO_CYCLE"
MANUAL_BROWSE == "MANUAL_BROWSE"
SETTINGS == "SETTINGS"

UIMode == {AUTO_CYCLE, MANUAL_BROWSE, SETTINGS}

\* enum ScreenID
SCREEN_YEAR == 0
SCREEN_HOUR == 3
SCREEN_GAME_OF_LIFE == 6

(***************************************************************************)
(* Bounds of the model.                                                    *)
(***************************************************************************)
\* grid_width_ and grid_height_ of the grids whose every neighbourhood is enumerated
GridW == 4
GridH == 5
\* generations computed from each enumerated grid
GridSteps == 2
\* grid_width_ and grid_height_ of the grids that hold a population of 58 cells
EngineW == 9
EngineH == 19
\* the last reading of the clock of a run of the engine, in update intervals
EngineHorizon == 40
\* the last reading of the clock of a run with early and late calls
RateHorizon == 8
\* the last reading of the clock of a run of the component, in seconds
LoopSeconds == 12
\* the last reading of the clock of a run with the inputs of the UI, in seconds
UISeconds == 7
\* the last reading of the clock of a run of a stable automaton, in seconds
StableSeconds == 40
\* the last reading of the clock of a run of seedings, in milliseconds
SeedHorizon == 4
\* the last reading of the clock of a run of an idle UI, in seconds
IdleSeconds == 13
\* the last reading of the clock of a run of registrations, in seconds
ScreensSeconds == 3
\* the last reading of the clock of a run of resets, in seconds
ResetSeconds == 30

(***************************************************************************)
(* Grid store.  game_grid_ is a flat array indexed y * grid_width_ + x;    *)
(* the model keeps the grid_width_ * grid_height_ cells the code uses.     *)
(***************************************************************************)
Cells(w, h) == 0 .. (w * h - 1)

EmptyGrid(w, h) == [i \in Cells(w, h) |-> 0]

get_cell(s, x, y) ==
    IF x < 0 \/ x >= s.grid_width_ \/ y < 0 \/ y >= s.grid_height_
    THEN 0
    ELSE s.game_grid_[y * s.grid_width_ + x]

set_cell(s, x, y, value) ==
    IF x < 0 \/ x >= s.grid_width_ \/ y < 0 \/ y >= s.grid_height_
    THEN s
    ELSE [s EXCEPT !.game_grid_[y * s.grid_width_ + x] = value]

\* the wrapped coordinate of count_neighbors: one correction in each direction
WrapCoord(n, size) ==
    LET up == IF n < 0 THEN n + size ELSE n
    IN  IF up >= size THEN up - size ELSE up

\* the offsets (dx, dy) in the order of the two loops, the centre skipped
NeighbourOffsets ==
    <<<<-1, -1>>, <<0, -1>>, <<1, -1>>, <<-1, 0>>, <<1, 0>>,
      <<-1, 1>>, <<0, 1>>, <<1, 1>>>>

count_neighbors(s, x, y) ==
    LET hit(k) ==
            IF get_cell(s, WrapCoord(x + NeighbourOffsets[k][1], s.grid_width_),
                           WrapCoord(y + NeighbourOffsets[k][2], s.grid_height_)) > 0
            THEN 1 ELSE 0
    IN  hit(1) + hit(2) + hit(3) + hit(4) + hit(5) + hit(6) + hit(7) + hit(8)

(***************************************************************************)
(* The object as its member initialisers leave it (life_matrix.h), with    *)
(* the dimensions given by set_grid_dimensions and the configuration       *)
(* given by set_game_config.                                               *)
(***************************************************************************)
\* a sensor::Sensor of the host framework: the number of publish_state calls it
\* has received and the value of the last one (0 before the first)
Sensor == [set |-> TRUE, state |-> 0, published |-> 0]

\* the nullptr a sensor pointer holds until its setter is called
NoSensor == [set |-> FALSE, state |-> 0, published |-> 0]

publish_state(sensor, value) ==
    [sensor EXCEPT !.state = value, !.published = @ + 1]

\* if (sensor) sensor->publish_state(value)
PublishIfSet(sensor, value) ==
    IF sensor.set THEN publish_state(sensor, value) ELSE sensor

set_gol_final_generation_sensor(s, sensor) ==
    [s EXCEPT !.gol_final_generation_sensor_ = sensor]

set_gol_final_population_sensor(s, sensor) ==
    [s EXCEPT !.gol_final_population_sensor_ = sensor]

GameOfLifeConfig(interval, complex, auto_reset, timeout) ==
    [update_interval_ms |-> interval,
     complex_patterns |-> complex,
     auto_reset_on_stable |-> auto_reset,
     stability_timeout_ms |-> timeout,
     demo_mode_enabled |-> FALSE]

Constructed(w, h, config) ==
    [grid_width_ |-> w,
     grid_height_ |-> h,
     game_grid_ |-> EmptyGrid(w, h),
     game_grid_back_ |-> EmptyGrid(w, h),
     game_initialized_ |-> FALSE,
     game_last_update_ |-> 0,
     game_start_time_ |-> 0,
     game_generation_ |-> 0,
     game_last_max_age_ |-> 0,
     population_history_ |-> [i \in 0 .. (HistoryLen - 1) |-> 0],
     history_idx_ |-> 0,
     history_filled_ |-> FALSE,
     game_births_ |-> 0,
     game_deaths_ |-> 0,
     game_stable_since_ |-> 0,
     game_stable_paused_elapsed_ |-> 0,
     game_is_stable_ |-> FALSE,
     gol_was_visible_ |-> FALSE,
     game_demo_mode_ |-> FALSE,
     game_demo_start_time_ |-> 0,
     game_reset_animation_ |-> FALSE,
     game_reset_animation_start_ |-> 0,
     game_config_ |-> config,
     gol_final_generation_sensor_ |-> NoSensor,
     gol_final_population_sensor_ |-> NoSensor,
     screens_ |-> <<>>,
     enabled_screen_ids_ |-> <<>>,
     current_screen_idx_ |-> 0,
     last_switch_time_ |-> 0,
     screen_cycle_time_ |-> 3,
     ui_mode_ |-> AUTO_CYCLE,
     ui_last_input_ms_ |-> 0,
     ui_paused_ |-> FALSE,
     settings_cursor_ |-> 0,
     ota_in_progress_ |-> FALSE]

(***************************************************************************)
(* Seeding.                                                                *)
(***************************************************************************)
\* set_cell(x + dx, y + dy, 1) for the offsets of a shape, in order.  (The
\* test of the width makes the model checker evaluate the object after each
\* set_cell instead of stacking the calls up.)
RECURSIVE Stamp(_, _, _, _)
Stamp(s, x, y, offsets) ==
    IF offsets = <<>> \/ s.grid_width_ < 0 THEN s
    ELSE Stamp(set_cell(s, x + Head(offsets)[1], y + Head(offsets)[2], 1),
               x, y, Tail(offsets))

R_PentominoShape == <<<<1, 0>>, <<2, 0>>, <<0, 1>>, <<1, 1>>, <<1, 2>>>>
AcornShape ==
    <<<<1, 0>>, <<3, 1>>, <<0, 2>>, <<1, 2>>, <<4, 2>>, <<5, 2>>, <<6, 2>>>>
GliderShape == <<<<1, 0>>, <<2, 1>>, <<0, 2>>, <<1, 2>>, <<2, 2>>>>
DiehardShape ==
    <<<<6, 0>>, <<0, 1>>, <<1, 1>>, <<1, 2>>, <<5, 2>>, <<6, 2>>, <<7, 2>>>>

place_pattern(s, x, y, pattern) ==
    CASE pattern = PATTERN_R_PENTOMINO -> Stamp(s, x, y, R_PentominoShape)
      [] pattern = PATTERN_ACORN -> Stamp(s, x, y, AcornShape)
      [] pattern = PATTERN_GLIDER -> Stamp(s, x, y, GliderShape)
      [] pattern = PATTERN_DIEHARD -> Stamp(s, x, y, DiehardShape)
      [] OTHER -> s

\* randomize_cells: rnd is the set of cells <<x, y>> for which
\* std::rand() % 100 < density_percent came out true
randomize_cells(s, density_percent, rnd) ==
    LET hit(i) ==
            /\ density_percent > 0
            /\ <<i % s.grid_width_, i \div s.grid_width_>> \in rnd
    IN  [s EXCEPT !.game_grid_ =
            [i \in Cells(s.grid_width_, s.grid_height_) |->
                IF hit(i) THEN 1 ELSE s.game_grid_[i]]]

\* C++ integer division truncates toward zero
CDiv(a, b) == IF a >= 0 THEN a \div b ELSE -((-a) \div b)

initialize_game_of_life(s, t, pattern, rnd) ==
    LET cleared == [s EXCEPT !.game_grid_ = EmptyGrid(s.grid_width_, s.grid_height_)]
        seeded ==
            IF pattern = PATTERN_MIXED /\ s.game_config_.complex_patterns
            THEN LET p1 == place_pattern(cleared, 5, 15, PATTERN_R_PENTOMINO)
                     p2 == place_pattern(p1, 10, 50, PATTERN_ACORN)
                     p3 == place_pattern(p2, 15, 85, PATTERN_DIEHARD)
                     p4 == place_pattern(p3, 3, 10, PATTERN_GLIDER)
                     p5 == place_pattern(p4, 20, 30, PATTERN_GLIDER)
                     p6 == place_pattern(p5, 8, 100, PATTERN_GLIDER)
                 IN  randomize_cells(p6, 10, rnd)
            ELSE IF pattern = PATTERN_RANDOM
            THEN randomize_cells(cleared, 30, rnd)
            ELSE place_pattern(cleared,
                               CDiv(s.grid_width_, 2) - 3,
                               CDiv(s.grid_height_, 2) - 3, pattern)
    IN  [seeded EXCEPT
            !.game_initialized_ = TRUE,
            !.game_generation_ = 0,
            !.game_last_update_ = t,
            !.game_start_time_ = t,
            !.population_history_ = [i \in 0 .. (HistoryLen - 1) |-> 0],
            !.history_idx_ = 0,
            !.history_filled_ = FALSE,
            !.game_is_stable_ = FALSE,
            !.game_stable_since_ = 0,
            !.game_stable_paused_elapsed_ = 0]

(***************************************************************************)
(* Reset request and the flat-history test.                                *)
(***************************************************************************)
\* mutant: the reset that starts the animation without entering the demo
reset_game_of_lifeNoDemo(s, t) ==
    [s EXCEPT
        !.game_reset_animation_ = TRUE,
        !.game_reset_animation_start_ = t,
        !.game_is_stable_ = FALSE,
        !.game_stable_since_ = 0,
        !.game_stable_paused_elapsed_ = 0]

reset_game_of_life(s, t) ==
    [s EXCEPT
        !.game_reset_animation_ = TRUE,
        !.game_reset_animation_start_ = t,
        !.game_demo_mode_ = TRUE,
        !.game_demo_start_time_ = t,
        !.game_is_stable_ = FALSE,
        !.game_stable_since_ = 0,
        !.game_stable_paused_elapsed_ = 0]

\* mutant: the loop stopping one slot short of the end of the history
is_stableShort(s) ==
    IF ~s.history_filled_ THEN FALSE
    ELSE LET first_pop == s.population_history_[0]
         IN  \A i \in 1 .. (HistoryLen - 2) : s.population_history_[i] = first_pop

is_stable(s) ==
    IF ~s.history_filled_ THEN FALSE
    ELSE LET first_pop == s.population_history_[0]
         IN  \A i \in 1 .. (HistoryLen - 1) : s.population_history_[i] = first_pop

(***************************************************************************)
(* One generation: update_game_of_life.                                    *)
(***************************************************************************)
\* row and column of the wrapped neighbours (lines 259-265)
RowAbove(y, h) == IF y = 0 THEN h - 1 ELSE y - 1
RowBelow(y, h) == IF y = h - 1 THEN 0 ELSE y + 1
\* mutant: the left neighbour of column 0 clamped instead of wrapped
ColLeftClamped(x, w) == IF x = 0 THEN 0 ELSE x - 1

ColLeft(x, w) == IF x = 0 THEN w - 1 ELSE x - 1
ColRight(x, w) == IF x = w - 1 THEN 0 ELSE x + 1

\* the inlined neighbour count of cell (x, y) of the flat array src
InlineNeighbors(src, w, h, x, y) ==
    LET row_above == RowAbove(y, h) * w
        row_cur == y * w
        row_below == RowBelow(y, h) * w
        xl == ColLeft(x, w)
        xr == ColRight(x, w)
        B(i) == IF src[i] > 0 THEN 1 ELSE 0
    IN  B(row_above + xl) + B(row_above + x) + B(row_above + xr)
        + B(row_cur + xl) + B(row_cur + xr)
        + B(row_below + xl) + B(row_below + x) + B(row_below + xr)

\* mutant: a live cell with 2 neighbours dies
NextAliveThreeOnly(alive, neighbors) == neighbors = 3

\* Conway's rule (lines 277-283)
NextAlive(alive, neighbors) ==
    IF alive THEN (neighbors = 2 \/ neighbors = 3) ELSE neighbors = 3

\* mutant: the increment without std::min, wrapping in uint8_t
NextAgeWrapping(current_age, next_alive) ==
    IF next_alive
    THEN IF current_age = 0 THEN 1 ELSE (current_age + 1) % UInt8Range
    ELSE 0

\* the age written to the back buffer (lines 285-290)
NextAge(current_age, next_alive) ==
    IF next_alive
    THEN IF current_age = 0 THEN 1 ELSE Min(MaxAge, current_age + 1) % UInt8Range
    ELSE 0

\* the body of the inner loop for cell (x, y) (lines 264-290): whether the cell
\* is alive, whether it is alive in the next generation, and its next age
CellOutcome(src, w, h, x, y) ==
    LET current_age == src[y * w + x]
        alive == current_age > 0
        next_alive == NextAlive(alive, InlineNeighbors(src, w, h, x, y))
    IN  [alive |-> alive,
         next_alive |-> next_alive,
         next_age |-> NextAge(current_age, next_alive)]

\* the two nested loops (lines 255-294): the outcome of every cell.  No cell's
\* outcome depends on another's, all being read from src.  (The @@ makes the
\* model checker evaluate the function once instead of at every use.)
LoopOutcomes(src, w, h) ==
    [k \in Cells(w, h) |-> CellOutcome(src, w, h, k % w, k \div w)] @@ <<>>

\* mutant: the increment outside its branch, counting every cell alive next
CountBirthsAllAlive(out) ==
    Cardinality({k \in DOMAIN out : out[k].next_alive})

\* game_births_++ (line 282): once for every cell that takes that branch
CountBirths(out) ==
    Cardinality({k \in DOMAIN out : ~out[k].alive /\ out[k].next_alive})

\* game_deaths_++ (line 279)
CountDeaths(out) ==
    Cardinality({k \in DOMAIN out : out[k].alive /\ ~out[k].next_alive})

\* population++ (line 289)
CountPopulation(out) ==
    Cardinality({k \in DOMAIN out : out[k].next_alive})

\* max_age (line 288): the largest next_age of a cell alive in the next
\* generation, 0 when there is none
MaxNextAge(out) ==
    LET ages == {out[k].next_age : k \in {j \in DOMAIN out : out[j].next_alive}}
    IN  IF \E a \in ages : a > 0
        THEN CHOOSE a \in ages : \A b \in ages : b <= a
        ELSE 0

\* game_grid_back_.fill(0) and the write of line 292 for every cell
BackBuffer(out, w, h) ==
    [k \in Cells(w, h) |-> out[k].next_age] @@ EmptyGrid(w, h)

\* mutant: the report made without the test of the flag
MarkStableEveryStep(s, t, population) ==
    [s EXCEPT
        !.game_is_stable_ = TRUE,
        !.game_stable_since_ = IF s.game_is_stable_ THEN @ ELSE t,
        !.gol_final_generation_sensor_ =
            PublishIfSet(s.gol_final_generation_sensor_, s.game_generation_),
        !.gol_final_population_sensor_ =
            PublishIfSet(s.gol_final_population_sensor_, population)]

\* the stable edge of lines 313-321 and 324-332
MarkStable(s, t, population) ==
    IF ~s.game_is_stable_
    THEN [s EXCEPT
            !.game_is_stable_ = TRUE,
            !.game_stable_since_ = t,
            !.gol_final_generation_sensor_ =
                PublishIfSet(s.gol_final_generation_sensor_, s.game_generation_),
            !.gol_final_population_sensor_ =
                PublishIfSet(s.gol_final_population_sensor_, population)]
    ELSE s

\* mutant: the low-population rule applied whatever auto_reset_on_stable is
ClassifyLowAlways(s, t, population) ==
    IF population = 0
    THEN reset_game_of_life(s, t)
    ELSE IF population < LowPopulationFloor
    THEN MarkStable(s, t, population)
    ELSE IF is_stable(s)
    THEN MarkStable(s, t, population)
    ELSE [s EXCEPT !.game_is_stable_ = FALSE]

\* lines 306-336
Classify(s, t, population) ==
    IF population = 0
    THEN reset_game_of_life(s, t)
    ELSE IF population < LowPopulationFloor /\ s.game_config_.auto_reset_on_stable
    THEN MarkStable(s, t, population)
    ELSE IF is_stable(s)
    THEN MarkStable(s, t, population)
    ELSE [s EXCEPT !.game_is_stable_ = FALSE]

\* mutant: the comparison off by one, a call exactly one interval later skipped
StepDueLater(s, t) ==
    ~(USub(t, s.game_last_update_) <= s.game_config_.update_interval_ms)

\* the rate limit of line 235
StepDue(s, t) ==
    ~(USub(t, s.game_last_update_) < s.game_config_.update_interval_ms)

\* mutant: the history reported as filled one step before the index wraps
HistoryFilledEarly(filled, idx) == filled \/ idx = HistoryLen - 1

\* history_filled_ after a step that leaves the index at idx (lines 301-303)
HistoryFilled(filled, idx) == filled \/ idx = 0

update_game_of_life(s, t) ==
    IF ~StepDue(s, t) THEN s
    ELSE LET w == s.grid_width_
             h == s.grid_height_
             out == LoopOutcomes(s.game_grid_, w, h)
             population == CountPopulation(out)
             idx == (s.history_idx_ + 1) % HistoryLen
             stepped ==
                 [s EXCEPT
                    !.game_last_update_ = t,
                    !.game_births_ = CountBirths(out),
                    !.game_deaths_ = CountDeaths(out),
                    !.game_grid_ = BackBuffer(out, w, h),
                    !.game_grid_back_ = s.game_grid_,
                    !.game_generation_ = s.game_generation_ + 1,
                    !.game_last_max_age_ = MaxNextAge(out),
                    !.population_history_[s.history_idx_] = population,
                    !.history_idx_ = idx,
                    !.history_filled_ = HistoryFilled(s.history_filled_, idx)]
         IN  Classify(stepped, t, population)

(***************************************************************************)
(* Screens and UI mode.                                                    *)
(***************************************************************************)
get_current_screen_id(s) ==
    IF \/ s.enabled_screen_ids_ = <<>>
       \/ s.current_screen_idx_ < 0
       \/ s.current_screen_idx_ >= Len(s.enabled_screen_ids_)
    THEN -1
    ELSE s.enabled_screen_ids_[s.current_screen_idx_ + 1]

\* the ids of the enabled screens, in the order of the list
RECURSIVE EnabledIds(_)
EnabledIds(screens) ==
    IF screens = <<>> THEN <<>>
    ELSE (IF Head(screens).enabled THEN <<Head(screens).id>> ELSE <<>>)
            \o EnabledIds(Tail(screens))

\* mutant: the registration that adds an entry for an id already registered
register_screenAppends(s, screen_id, enabled) ==
    LET screens == Append(s.screens_, [id |-> screen_id, enabled |-> enabled])
        rebuilt == [s EXCEPT !.screens_ = screens,
                             !.enabled_screen_ids_ = EnabledIds(screens)]
    IN  IF /\ ~enabled
           /\ get_current_screen_id(rebuilt) = screen_id
           /\ rebuilt.enabled_screen_ids_ /= <<>>
        THEN [rebuilt EXCEPT !.current_screen_idx_ = 0]
        ELSE rebuilt

register_screen(s, screen_id, enabled) ==
    LET found == \E k \in 1 .. Len(s.screens_) : s.screens_[k].id = screen_id
        first == CHOOSE k \in 1 .. Len(s.screens_) :
                    /\ s.screens_[k].id = screen_id
                    /\ \A j \in 1 .. (k - 1) : s.screens_[j].id /= screen_id
        screens == IF found
                   THEN [s.screens_ EXCEPT ![first].enabled = enabled]
                   ELSE Append(s.screens_, [id |-> screen_id, enabled |-> enabled])
        rebuilt == [s EXCEPT !.screens_ = screens,
                             !.enabled_screen_ids_ = EnabledIds(screens)]
    IN  IF /\ ~enabled
           /\ get_current_screen_id(rebuilt) = screen_id
           /\ rebuilt.enabled_screen_ids_ /= <<>>
        THEN [rebuilt EXCEPT !.current_screen_idx_ = 0]
        ELSE rebuilt

\* mutant: the input that leaves the timestamp of the last input as it is
handle_inputStale(s, t) == s

handle_input(s, t) == [s EXCEPT !.ui_last_input_ms_ = t]

\* mutant: the change of mode that leaves the timer of the auto-cycle running
set_ui_modeKeepsTimer(s, t, mode) ==
    IF s.ui_mode_ /= mode
    THEN handle_input([s EXCEPT !.ui_mode_ = mode], t)
    ELSE s

set_ui_mode(s, t, mode) ==
    IF s.ui_mode_ /= mode
    THEN LET changed == handle_input([s EXCEPT !.ui_mode_ = mode], t)
         IN  IF mode = AUTO_CYCLE \/ mode = SETTINGS
             THEN [changed EXCEPT !.last_switch_time_ = t]
             ELSE changed
    ELSE s

\* mutant: the idle timeouts that fall due one reading of the clock late
check_ui_timeoutLate(s, t) ==
    LET elapsed == USub(t, s.ui_last_input_ms_)
    IN  IF s.ui_mode_ = MANUAL_BROWSE /\ elapsed > 10000
        THEN set_ui_mode(s, t, AUTO_CYCLE)
        ELSE IF s.ui_mode_ = SETTINGS /\ elapsed > 10000
        THEN [set_ui_mode(s, t, MANUAL_BROWSE) EXCEPT
                !.settings_cursor_ = 0,
                !.ui_last_input_ms_ = t]
        ELSE s

check_ui_timeout(s, t) ==
    LET elapsed == USub(t, s.ui_last_input_ms_)
    IN  IF s.ui_mode_ = MANUAL_BROWSE /\ elapsed >= 10000
        THEN set_ui_mode(s, t, AUTO_CYCLE)
        ELSE IF s.ui_mode_ = SETTINGS /\ elapsed >= 10000
        THEN [set_ui_mode(s, t, MANUAL_BROWSE) EXCEPT
                !.settings_cursor_ = 0,
                !.ui_last_input_ms_ = t]
        ELSE s

\* mutant: the auto-cycle that advances one reading of the clock late
update_screen_cycleLate(s, t) ==
    IF s.ui_mode_ /= AUTO_CYCLE \/ s.ui_paused_ \/ s.enabled_screen_ids_ = <<>>
    THEN s
    ELSE IF /\ get_current_screen_id(s) = SCREEN_GAME_OF_LIFE
            /\ s.game_demo_mode_ \/ s.game_reset_animation_
    THEN s
    ELSE IF USub(t, s.last_switch_time_) > s.screen_cycle_time_ * 1000
    THEN [s EXCEPT
            !.current_screen_idx_ =
                (s.current_screen_idx_ + 1) % Len(s.enabled_screen_ids_),
            !.last_switch_time_ = t]
    ELSE s

update_screen_cycle(s, t) ==
    IF s.ui_mode_ /= AUTO_CYCLE \/ s.ui_paused_ \/ s.enabled_screen_ids_ = <<>>
    THEN s
    ELSE IF /\ get_current_screen_id(s) = SCREEN_GAME_OF_LIFE
            /\ s.game_demo_mode_ \/ s.game_reset_animation_
    THEN s
    ELSE IF USub(t, s.last_switch_time_) >= s.screen_cycle_time_ * 1000
    THEN [s EXCEPT
            !.current_screen_idx_ =
                (s.current_screen_idx_ + 1) % Len(s.enabled_screen_ids_),
            !.last_switch_time_ = t]
    ELSE s

next_screen(s, t) ==
    IF s.enabled_screen_ids_ = <<>> THEN s
    ELSE LET browsing == set_ui_mode(handle_input(s, t), t, MANUAL_BROWSE)
         IN  [browsing EXCEPT
                !.current_screen_idx_ =
                    (browsing.current_screen_idx_ + 1) % Len(s.enabled_screen_ids_),
                !.last_switch_time_ = t]

set_current_screen(s, t, screen_idx) ==
    IF s.enabled_screen_ids_ = <<>> \/ screen_idx < 0 THEN s
    ELSE [s EXCEPT
            !.current_screen_idx_ = screen_idx % Len(s.enabled_screen_ids_),
            !.last_switch_time_ = t]

\* mutant: the previous-screen input without the test of the empty list
prev_screenUnguarded(s, t) ==
    LET browsing == set_ui_mode(handle_input(s, t), t, MANUAL_BROWSE)
        decremented == browsing.current_screen_idx_ - 1
    IN  [browsing EXCEPT
            !.current_screen_idx_ =
                IF decremented < 0
                THEN Len(s.enabled_screen_ids_) - 1
                ELSE decremented,
            !.last_switch_time_ = t]

prev_screen(s, t) ==
    IF s.enabled_screen_ids_ = <<>> THEN s
    ELSE LET browsing == set_ui_mode(handle_input(s, t), t, MANUAL_BROWSE)
             decremented == browsing.current_screen_idx_ - 1
         IN  [browsing EXCEPT
                !.current_screen_idx_ =
                    IF decremented < 0
                    THEN Len(s.enabled_screen_ids_) - 1
                    ELSE decremented,
                !.last_switch_time_ = t]

toggle_pause(s) == [s EXCEPT !.ui_paused_ = ~s.ui_paused_]

set_settings_cursor(s, pos) == [s EXCEPT !.settings_cursor_ = pos]

set_screen_cycle_time(s, seconds) == [s EXCEPT !.screen_cycle_time_ = seconds]

(***************************************************************************)
(* Operations: the clock and a call of update_game_of_life.                *)
(***************************************************************************)
UpdateGameOfLife ==
    /\ lm' = update_game_of_life(lm, now)
    /\ UNCHANGED now

(***************************************************************************)
(* The component: setup, loop and render.                                  *)
(***************************************************************************)
setup(s, t, rnd) ==
    LET pattern == IF s.game_config_.complex_patterns
                   THEN PATTERN_MIXED ELSE PATTERN_RANDOM
    IN  [initialize_game_of_life(s, t, pattern, rnd) EXCEPT
            !.game_demo_mode_ = TRUE,
            !.game_demo_start_time_ = t]

\* the pause and resume of the stability timer when the visibility of the
\* automaton screen changes (lines 41-56)
TrackVisibility(s, t, gol_visible) ==
    IF gol_visible /= s.gol_was_visible_
    THEN [(IF ~gol_visible /\ s.gol_was_visible_
           THEN IF s.game_is_stable_ /\ s.game_stable_since_ > 0
                THEN [s EXCEPT !.game_stable_paused_elapsed_ =
                                USub(t, s.game_stable_since_)]
                ELSE s
           ELSE IF s.game_is_stable_ /\ s.game_stable_paused_elapsed_ > 0
                THEN [s EXCEPT !.game_stable_since_ =
                                USub(t, s.game_stable_paused_elapsed_)]
                ELSE s)
          EXCEPT !.gol_was_visible_ = gol_visible]
    ELSE s

\* mutant: the gate of the step without the test of the visibility
ShouldStepHidden(s, gol_visible) ==
    /\ s.game_initialized_
    /\ ~s.game_reset_animation_
    /\ ~s.game_demo_mode_

\* mutant: the gate of the step without the test of the demo
ShouldStepInDemo(s, gol_visible) ==
    /\ s.game_initialized_
    /\ gol_visible
    /\ ~s.game_reset_animation_

\* the gate of the step (line 59)
ShouldStep(s, gol_visible) ==
    /\ s.game_initialized_
    /\ gol_visible
    /\ ~s.game_reset_animation_
    /\ ~s.game_demo_mode_

\* mutant: the countdown that expires one reading of the clock late
CountdownExpiredLate(s, t) ==
    /\ s.game_is_stable_
    /\ s.game_config_.auto_reset_on_stable
    /\ USub(t, s.game_stable_since_) > s.game_config_.stability_timeout_ms

\* the test of the stability countdown (lines 63-65)
CountdownExpired(s, t) ==
    /\ s.game_is_stable_
    /\ s.game_config_.auto_reset_on_stable
    /\ USub(t, s.game_stable_since_) >= s.game_config_.stability_timeout_ms

\* the visibility handling and the step of loop() (lines 38-70): the object
\* as update_screen_cycle() finds it
StepPhase(s, t) ==
    LET gol_visible == get_current_screen_id(s) = SCREEN_GAME_OF_LIFE
        seen == TrackVisibility(s, t, gol_visible)
    IN  IF ShouldStep(seen, gol_visible)
        THEN LET updated == update_game_of_life(seen, t)
             IN  IF CountdownExpired(updated, t)
                 THEN reset_game_of_life(updated, t)
                 ELSE updated
        ELSE seen

loop(s, t) ==
    IF s.ota_in_progress_ THEN s
    ELSE check_ui_timeout(update_screen_cycle(StepPhase(s, t), t), t)

\* the state render_game_of_life changes: the end of the reset animation and
\* the end of the demo, which reseeds the grid (lines 1153-1173)
render_game_of_life(s, t, rnd) ==
    LET animated ==
            IF s.game_reset_animation_
               /\ USub(t, s.game_reset_animation_start_) >= 1000
            THEN [s EXCEPT !.game_reset_animation_ = FALSE]
            ELSE s
    IN  IF animated.game_reset_animation_ THEN animated
        ELSE IF /\ animated.game_demo_mode_
                /\ USub(t, animated.game_demo_start_time_) >= 5000
        THEN initialize_game_of_life(
                [animated EXCEPT !.game_demo_mode_ = FALSE,
                                 !.last_switch_time_ = t],
                t,
                IF animated.game_config_.complex_patterns
                THEN PATTERN_MIXED ELSE PATTERN_RANDOM,
                rnd)
        ELSE animated

\* render: the screen shown is that of get_current_screen_id; of the views
\* only render_game_of_life writes members this model holds (the drawing and
\* the hourly celebration read and write none of them)
render(s, t, rnd) ==
    IF s.ota_in_progress_ THEN s
    ELSE IF get_current_screen_id(s) = SCREEN_GAME_OF_LIFE
    THEN render_game_of_life(s, t, rnd)
    ELSE s

(***************************************************************************)
(* Spec: the component as the framework runs it: setup once, then loop and *)
(* render at any reading of the clock, and the next-screen input.  The     *)
(* grid is small, so that what std::rand() seeds either dies out at the    *)
(* first step (one cell), at a later step (three cells in a diagonal), or  *)
(* settles (an L of three cells becomes a block).                          *)
(***************************************************************************)
LoopDraws ==
    {{<<1, 1>>}, {<<0, 0>>, <<1, 1>>, <<2, 2>>}, {<<1, 1>>, <<2, 1>>, <<1, 2>>}}

LoopConfig(auto_reset) == GameOfLifeConfig(1000, TRUE, auto_reset, 2000)

Init ==
    /\ now = 0
    /\ \E auto_reset \in BOOLEAN, rnd \in LoopDraws :
            lm = setup(register_screen(
                            register_screen(
                                Constructed(GridW, GridH, LoopConfig(auto_reset)),
                                SCREEN_GAME_OF_LIFE, TRUE),
                            SCREEN_HOUR, TRUE),
                       0, rnd)

Tick ==
    /\ now < LoopSeconds * 1000
    /\ now' = now + 1000
    /\ UNCHANGED lm

Loop ==
    /\ lm' = loop(lm, now)
    /\ UNCHANGED now

Render ==
    /\ \E rnd \in LoopDraws : lm' = render(lm, now, rnd)
    /\ UNCHANGED now

NextScreen ==
    /\ lm' = next_screen(lm, now)
    /\ UNCHANGED now

Next == Tick \/ Loop \/ Render \/ NextScreen

Spec == Init /\ [][Next]_vars

(***************************************************************************)
(* SpecUI: the component with the inputs of the UI as well: the previous-   *)
(* screen input, the pause toggle and set_ui_mode with any mode, at any     *)
(* reading of the clock.                                                    *)
(***************************************************************************)
UITick ==
    /\ now < UISeconds * 1000
    /\ now' = now + 1000
    /\ UNCHANGED lm

PrevScreen ==
    /\ lm' = prev_screen(lm, now)
    /\ UNCHANGED now

TogglePause ==
    /\ lm' = toggle_pause(lm)
    /\ UNCHANGED now

SetUiMode ==
    /\ \E mode \in UIMode : lm' = set_ui_mode(lm, now, mode)
    /\ UNCHANGED now

NextUI ==
    UITick \/ Loop \/ Render \/ NextScreen \/ PrevScreen \/ TogglePause \/ SetUiMode

SpecUI == Init /\ [][NextUI]_vars

(***************************************************************************)
(* SpecStable: the component as the framework runs it for long enough that *)
(* an automaton that settles fills its population history: the clock moves *)
(* on once loop() and render() have run at its reading, and the next-screen *)
(* input comes while the automaton is stable.  The automaton screen is the *)
(* only screen registered, so it stays visible.  std::rand() seeds an L of *)
(* three cells, which becomes a block at the first step.                   *)
(***************************************************************************)
StableDraw == {<<1, 1>>, <<2, 1>>, <<1, 2>>}

InitStable ==
    /\ now = 0
    /\ \E auto_reset \in BOOLEAN :
            lm = setup(register_screen(
                            Constructed(GridW, GridH, LoopConfig(auto_reset)),
                            SCREEN_GAME_OF_LIFE, TRUE),
                       0, StableDraw)

StableTick ==
    /\ now < StableSeconds * 1000
    /\ loop(lm, now) = lm
    /\ render(lm, now, StableDraw) = lm
    /\ now' = now + 1000
    /\ UNCHANGED lm

RenderStable ==
    /\ lm' = render(lm, now, StableDraw)
    /\ UNCHANGED now

\* the next-screen input during a stability countdown
NextScreenStable ==
    /\ lm.game_is_stable_
    /\ NextScreen

NextStable == StableTick \/ Loop \/ RenderStable \/ NextScreenStable

SpecStable == InitStable /\ [][NextStable]_vars

(***************************************************************************)
(* SpecIdle: the UI left alone for longer than the idle timeout.  The      *)
(* clock moves on once loop() and render() have run at its reading; the    *)
(* inputs are the next-screen input, set_ui_mode with any mode, the pause   *)
(* toggle and set_settings_cursor.  The dwell time is the default of 3 s    *)
(* or 0 (set_screen_cycle_time before setup).  std::rand() seeds one cell,  *)
(* which dies at the first step, so the automaton screen goes through the   *)
(* reset animation and the demo again and again.                            *)
(***************************************************************************)
DwellTimes == {0, 3}

IdleDraw == {<<1, 1>>}

IdleCursor == 2

InitIdle ==
    /\ now = 0
    /\ \E seconds \in DwellTimes :
            lm = setup(register_screen(
                            register_screen(
                                set_screen_cycle_time(
                                    Constructed(GridW, GridH, LoopConfig(FALSE)),
                                    seconds),
                                SCREEN_GAME_OF_LIFE, TRUE),
                            SCREEN_HOUR, TRUE),
                       0, IdleDraw)

IdleTick ==
    /\ now < IdleSeconds * 1000
    /\ loop(lm, now) = lm
    /\ render(lm, now, IdleDraw) = lm
    /\ now' = now + 1000
    /\ UNCHANGED lm

RenderIdle ==
    /\ lm' = render(lm, now, IdleDraw)
    /\ UNCHANGED now

SetSettingsCursor ==
    /\ lm' = set_settings_cursor(lm, IdleCursor)
    /\ UNCHANGED now

NextIdle ==
    \/ IdleTick
    \/ Loop
    \/ RenderIdle
    \/ NextScreen
    \/ SetUiMode
    \/ TogglePause
    \/ SetSettingsCursor

SpecIdle == InitIdle /\ [][NextIdle]_vars

(***************************************************************************)
(* SpecScreens: the registration of screens at run time.  setup() runs      *)
(* before any screen is registered; then register_screen(id, enabled) with  *)
(* any of three ids, the navigation (next_screen, prev_screen,              *)
(* set_current_screen with any index), set_ui_mode and loop() come in any   *)
(* order while the clock runs past the dwell time.                          *)
(***************************************************************************)
ScreenIds == {SCREEN_YEAR, SCREEN_HOUR, SCREEN_GAME_OF_LIFE}

ScreenIndexes == -1 .. 3

InitScreens ==
    /\ now = 0
    /\ lm = setup(Constructed(GridW, GridH, LoopConfig(FALSE)), 0, IdleDraw)

ScreensTick ==
    /\ now < ScreensSeconds * 1000
    /\ now' = now + 1000
    /\ UNCHANGED lm

RegisterScreen ==
    /\ \E screen_id \in ScreenIds, enabled \in BOOLEAN :
            lm' = register_screen(lm, screen_id, enabled)
    /\ UNCHANGED now

SetCurrentScreen ==
    /\ \E screen_idx \in ScreenIndexes :
            lm' = set_current_screen(lm, now, screen_idx)
    /\ UNCHANGED now

NextScreens ==
    \/ ScreensTick
    \/ Loop
    \/ RegisterScreen
    \/ NextScreen
    \/ PrevScreen
    \/ SetCurrentScreen
    \/ SetUiMode

SpecScreens == InitScreens /\ [][NextScreens]_vars

(***************************************************************************)
(* SpecReset: the automaton screen as the only screen, so that it stays    *)
(* the current one, with auto-reset enabled, as the framework runs it      *)
(* without end: in every frame loop() is called, render() a millisecond    *)
(* later, and the next frame starts a second after the last.  That the     *)
(* framework keeps doing so is the weak fairness of the two returns, which *)
(* are the steps of the clock.  std::rand() seeds one cell, which dies at  *)
(* the first step (extinction), or an L of three cells, which becomes a    *)
(* block (stable, then the countdown expires).                             *)
(***************************************************************************)
ResetDraws == {{<<1, 1>>}, {<<1, 1>>, <<2, 1>>, <<1, 2>>}}

InitReset ==
    /\ now = 0
    /\ \E rnd \in ResetDraws :
            lm = setup(register_screen(
                            Constructed(GridW, GridH, LoopConfig(TRUE)),
                            SCREEN_GAME_OF_LIFE, TRUE),
                       0, rnd)

\* the clock at the return of loop()
LoopReturns ==
    /\ now % 1000 = 0
    /\ now < ResetSeconds * 1000
    /\ now' = now + 1

\* the clock at the return of render()
RenderReturns ==
    /\ now % 1000 = 1
    /\ now' = now + 999

FrameLoop ==
    /\ LoopReturns
    /\ lm' = loop(lm, now)

FrameRender ==
    /\ RenderReturns
    /\ \E rnd \in ResetDraws : lm' = render(lm, now, rnd)

NextReset == FrameLoop \/ FrameRender

SpecReset ==
    /\ InitReset
    /\ [][NextReset]_vars
    /\ WF_now(LoopReturns)
    /\ WF_now(RenderReturns)

(***************************************************************************)
(* SpecGrid: the generation step as a function of the grid.  The grids are *)
(* every pattern of a 3 x 3 neighbourhood, placed inside the grid and       *)
(* placed across its corner (so that it straddles both edges), with ages   *)
(* as set_cell can write them: those of a fresh seed and those next to     *)
(* saturation.                                                             *)
(***************************************************************************)
AgeProfiles == {<<1, 1>>, <<254, 255>>}

PatchCells == (0 .. 2) \X (0 .. 2)

PatchOffsets(w, h) == {<<0, 0>>, <<w - 1, h - 1>>}

PatchGrid(w, h, o, P, ages) ==
    [i \in Cells(w, h) |->
        LET x == i % w
            y == i \div w
        IN  IF \E p \in P : (o[1] + p[1]) % w = x /\ (o[2] + p[2]) % h = y
            THEN ages[((x + y) % 2) + 1]
            ELSE 0]

GridConfig == GameOfLifeConfig(1, TRUE, TRUE, 60000)

InitGrid ==
    /\ now = 0
    /\ \E o \in PatchOffsets(GridW, GridH),
          P \in SUBSET PatchCells,
          ages \in AgeProfiles :
            lm = [initialize_game_of_life(Constructed(GridW, GridH, GridConfig),
                                          0, PATTERN_RANDOM, {})
                    EXCEPT !.game_grid_ = PatchGrid(GridW, GridH, o, P, ages)]

\* the clock moves on once the due generation has been computed
GridTick ==
    /\ now < GridSteps
    /\ ~StepDue(lm, now)
    /\ now' = now + 1
    /\ UNCHANGED lm

NextGrid == GridTick \/ UpdateGameOfLife

SpecGrid == InitGrid /\ [][NextGrid]_vars

(***************************************************************************)
(* SpecEngine: runs of the engine called directly, update_game_of_life at  *)
(* every reading of the clock and initialize_game_of_life at any of them,  *)
(* from grids written with set_cell after the first initialize.  The grids *)
(* cover the branches of the classification: extinction at the first and   *)
(* at a later step, populations below, at and above the floor of 58 that   *)
(* are flat, that alternate, and that are flat for 30 steps and then       *)
(* change.                                                                 *)
(***************************************************************************)
Moved(shape, ox, oy) == {<<c[1] + ox, c[2] + oy>> : c \in shape}

BlockCells == {<<0, 0>>, <<1, 0>>, <<0, 1>>, <<1, 1>>}
BlinkerCells == {<<0, 1>>, <<1, 1>>, <<2, 1>>}
BeehiveCells == {<<1, 0>>, <<2, 0>>, <<0, 1>>, <<3, 1>>, <<1, 2>>, <<2, 2>>}
BoatCells == {<<0, 0>>, <<1, 0>>, <<0, 1>>, <<2, 1>>, <<1, 2>>}
BoatMirrorCells == {<<2, 0>>, <<1, 0>>, <<2, 1>>, <<0, 1>>, <<1, 2>>}
BeaconCells == BlockCells \cup Moved(BlockCells, 2, 2)
GliderSeedCells == {<<GliderShape[k][1], GliderShape[k][2]>> : k \in 1 .. Len(GliderShape)}

\* rows of three blocks, a still life of 12 cells a row
BlockRows(rows) ==
    UNION {Moved(BlockCells, 3 * i, 3 * j) : i \in 0 .. 2, j \in 0 .. (rows - 1)}

EngineSeeds ==
    [one |-> {<<1, 1>>},
     diagonal |-> {<<1, 1>>, <<2, 2>>, <<3, 3>>},
     blinker |-> Moved(BlinkerCells, 1, 1),
     beacon |-> Moved(BeaconCells, 1, 1),
     collision |-> GliderSeedCells \cup Moved(BlockCells, 1, 12),
     settling |-> GliderSeedCells \cup Moved(BlockCells, 7, 13),
     late |-> GliderSeedCells \cup Moved(BlockCells, 6, 12),
     still57 |-> BlockRows(4) \cup Moved(BoatCells, 1, 13) \cup Moved(BlockCells, 6, 13),
     still58 |-> BlockRows(4) \cup Moved(BoatCells, 0, 13) \cup Moved(BoatMirrorCells, 4, 13),
     still60 |-> BlockRows(5),
     beacon58 |-> BlockRows(4) \cup Moved(BeaconCells, 0, 13) \cup Moved(BlockCells, 6, 13),
     crowded |-> BlockRows(4) \cup Moved(BeehiveCells, 1, 13) \cup Moved(BlockCells, 6, 13)]

\* set_cell(x, y, 1) for every cell of a seed
Seeded(s, cells) ==
    [s EXCEPT !.game_grid_ =
        [i \in Cells(s.grid_width_, s.grid_height_) |->
            IF <<i % s.grid_width_, i \div s.grid_width_>> \in cells
            THEN 1 ELSE s.game_grid_[i]] @@ <<>>]

EngineConfig(auto_reset) == GameOfLifeConfig(1, TRUE, auto_reset, 60000)

\* the outcomes of std::rand() followed at a reseed: no cell, and a blinker;
\* the patterns that do not call randomize_cells draw nothing
ReseedDraws(pattern) ==
    IF pattern \in {PATTERN_RANDOM, PATTERN_MIXED}
    THEN {{}, Moved(BlinkerCells, 1, 1)}
    ELSE {{}}

\* the configurations of a run: auto_reset_on_stable, and which of the two
\* sensors the configuration has set
EngineSetups ==
    {<<TRUE, Sensor, Sensor>>, <<FALSE, Sensor, Sensor>>, <<TRUE, Sensor, NoSensor>>}

InitEngine ==
    /\ now = 0
    /\ \E wiring \in EngineSetups, name \in DOMAIN EngineSeeds :
            lm = Seeded(
                    initialize_game_of_life(
                        set_gol_final_population_sensor(
                            set_gol_final_generation_sensor(
                                Constructed(EngineW, EngineH, EngineConfig(wiring[1])),
                                wiring[2]),
                            wiring[3]),
                        0, PATTERN_RANDOM, {}),
                    EngineSeeds[name])

\* the clock moves on once the due generation has been computed.  A run
\* reseeded after the start is not followed further: it continues as the run
\* from the same seed at time 0 does, and those start from every pattern.
EngineTick ==
    /\ now < EngineHorizon
    /\ ~StepDue(lm, now)
    /\ lm.game_start_time_ = 0
    /\ now' = now + 1
    /\ UNCHANGED lm

InitializeGameOfLife ==
    /\ lm.game_start_time_ = 0 \/ lm.game_generation_ = 0
    /\ \E pattern \in PatternType :
        \E rnd \in ReseedDraws(pattern) :
            lm' = initialize_game_of_life(lm, now, pattern, rnd)
    /\ UNCHANGED now

NextEngine == EngineTick \/ UpdateGameOfLife \/ InitializeGameOfLife

SpecEngine == InitEngine /\ [][NextEngine]_vars

(***************************************************************************)
(* SpecSeed: initialize_game_of_life called with every pattern, at any     *)
(* reading of the clock, on the object as constructed and configured: the  *)
(* grid of the default dimensions and that of a 64 x 32 panel, with the    *)
(* complex-patterns toggle on and off.                                     *)
(***************************************************************************)
SeedDimensions == {<<GRID_WIDTH, GRID_HEIGHT>>, <<64, 32>>}

InitSeed ==
    /\ now = 0
    /\ \E dims \in SeedDimensions, complex \in BOOLEAN :
            lm = Constructed(dims[1], dims[2],
                             GameOfLifeConfig(1, complex, TRUE, 60000))

SeedTick ==
    /\ now < SeedHorizon
    /\ now' = now + 1
    /\ UNCHANGED lm

NextSeed == SeedTick \/ InitializeGameOfLife

SpecSeed == InitSeed /\ [][NextSeed]_vars

(***************************************************************************)
(* SpecRate: update_game_of_life called at any reading of a clock that     *)
(* moves on whether or not a generation is due, so that calls come early,  *)
(* on time and late, with update intervals of 1 and 3 ms.                  *)
(***************************************************************************)
RateIntervals == {1, 3}

RateSeeds == {BlinkerCells, GliderSeedCells, {<<1, 1>>}}

InitRate ==
    /\ now = 0
    /\ \E interval \in RateIntervals, seed \in RateSeeds :
            lm = Seeded(initialize_game_of_life(
                            Constructed(GridW, GridH,
                                        GameOfLifeConfig(interval, TRUE, TRUE, 60000)),
                            0, PATTERN_RANDOM, {}),
                        seed)

RateTick ==
    /\ now < RateHorizon
    /\ now' = now + 1
    /\ UNCHANGED lm

NextRate == RateTick \/ UpdateGameOfLife \/ InitializeGameOfLife

SpecRate == InitRate /\ [][NextRate]_vars

(***************************************************************************)
(* Properties of one generation (SpecGrid).                                *)
(***************************************************************************)
\* a call of update_game_of_life that computes a generation
CompletedStep ==
    /\ StepDue(lm, now)
    /\ lm'.game_generation_ = lm.game_generation_ + 1
    /\ UpdateGameOfLife

Coords(s) == (0 .. (s.grid_width_ - 1)) \X (0 .. (s.grid_height_ - 1))

\* the grid of s moved by (dx, dy) on the torus
Shifted(s, dx, dy) ==
    [s EXCEPT !.game_grid_ =
        [i \in Cells(s.grid_width_, s.grid_height_) |->
            LET x == i % s.grid_width_
                y == i \div s.grid_width_
            IN  s.game_grid_[((y - dy) % s.grid_height_) * s.grid_width_
                             + ((x - dx) % s.grid_width_)]] @@ <<>>]

\* C1: after a due step a cell is alive exactly when it was alive with 2 or 3
\* live neighbours or dead with exactly 3, the neighbours being the 8 wrapped
\* neighbours of the grid before the step; every other cell is dead.
C1_RuleCorrectness ==
    [][CompletedStep =>
        \A c \in Coords(lm) :
            LET n == count_neighbors(lm, c[1], c[2])
                was == get_cell(lm, c[1], c[2]) > 0
            IN  (get_cell(lm', c[1], c[2]) > 0)
                    <=> ((was /\ n \in {2, 3}) \/ (~was /\ n = 3))]_vars

\* the grid before the last step, as the swap leaves it in the back buffer
BeforeStep == [lm EXCEPT !.game_grid_ = lm.game_grid_back_]

\* C1 witness: one step has produced a birth, a survival, a death by
\* underpopulation and a death by overpopulation
C1_Witness ==
    /\ lm.game_generation_ = 1
    /\ \E b \in Coords(lm) :
        get_cell(BeforeStep, b[1], b[2]) = 0 /\ get_cell(lm, b[1], b[2]) > 0
    /\ \E s \in Coords(lm) :
        get_cell(BeforeStep, s[1], s[2]) > 0 /\ get_cell(lm, s[1], s[2]) > 0
    /\ \E u \in Coords(lm) :
        /\ get_cell(BeforeStep, u[1], u[2]) > 0 /\ get_cell(lm, u[1], u[2]) = 0
        /\ count_neighbors(BeforeStep, u[1], u[2]) < 2
    /\ \E o \in Coords(lm) :
        /\ get_cell(BeforeStep, o[1], o[2]) > 0 /\ get_cell(lm, o[1], o[2]) = 0
        /\ count_neighbors(BeforeStep, o[1], o[2]) > 3

\* C2: after a due step a born cell has age 1, a surviving cell has age
\* min(255, old age + 1), every other cell has age 0; so the age of a cell that
\* stays alive never decreases and never wraps.
C2_AgeChannel ==
    [][CompletedStep =>
        \A c \in Coords(lm) :
            LET n == count_neighbors(lm, c[1], c[2])
                old == get_cell(lm, c[1], c[2])
                new == get_cell(lm', c[1], c[2])
            IN  /\ (old = 0 /\ n = 3) => new = 1
                /\ (old > 0 /\ n \in {2, 3}) =>
                        /\ new = (IF old + 1 > 255 THEN 255 ELSE old + 1)
                        /\ new >= old
                /\ (old = 0 /\ n /= 3) => new = 0
                /\ (old > 0 /\ n \notin {2, 3}) => new = 0]_vars

\* C2 witness: after two steps a cell that was 255 is still 255 beside a cell
\* that went from 254 to 255 and a cell just born
C2_Witness ==
    /\ lm.game_generation_ = 2
    /\ \E a, b, c \in Coords(lm) :
        /\ get_cell(BeforeStep, a[1], a[2]) = 255 /\ get_cell(lm, a[1], a[2]) = 255
        /\ get_cell(lm, b[1], b[2]) = 1
        /\ get_cell(lm, c[1], c[2]) = 2

\* C3: stepping the shifted grid gives the shifted step, ages included, for
\* every offset of the torus
C3_TranslationInvariance ==
    [][CompletedStep =>
        \A d \in Coords(lm) :
            update_game_of_life(Shifted(lm, d[1], d[2]), now).game_grid_
                = Shifted(lm', d[1], d[2]).game_grid_]_vars

\* the glider of place_pattern with its corner at (x, y), wrapped
GliderCells(s, x, y) ==
    {((y + GliderShape[k][2]) % s.grid_height_) * s.grid_width_
        + ((x + GliderShape[k][1]) % s.grid_width_) : k \in 1 .. Len(GliderShape)}

\* C3 witness: a step was computed from a glider straddling both edges
C3_Witness ==
    /\ lm.game_generation_ = 1
    /\ lm.game_births_ > 0
    /\ \A i \in Cells(lm.grid_width_, lm.grid_height_) :
        (lm.game_grid_back_[i] > 0)
            <=> i \in GliderCells(lm, lm.grid_width_ - 1, lm.grid_height_ - 1)

\* the live cells of a grid
Live(grid) == {i \in DOMAIN grid : grid[i] > 0}

\* C4: after a due step last_births is the number of cells dead before and
\* alive after it, last_deaths the number alive before and dead after it (per
\* step, not accumulated), and the population changes by births - deaths
C4_BirthDeathCounters ==
    [][CompletedStep =>
        /\ lm'.game_births_
            = Cardinality(Live(lm'.game_grid_) \ Live(lm.game_grid_))
        /\ lm'.game_deaths_
            = Cardinality(Live(lm.game_grid_) \ Live(lm'.game_grid_))
        /\ Cardinality(Live(lm'.game_grid_))
            = Cardinality(Live(lm.game_grid_))
                + lm'.game_births_ - lm'.game_deaths_]_vars

\* C4 witness: a second step whose counters differ from those a running total
\* would show
C4_Witness ==
    /\ lm.game_generation_ = 2
    /\ lm.game_births_ > 0
    /\ lm.game_deaths_ > 0
    /\ Cardinality(Live(lm.game_grid_back_)) > lm.game_deaths_

\* C5: in every state, a call of update_game_of_life made less than update_interval_ms after
\* the last completed step (or the seeding) changes nothing at all; a call made
\* at least the interval after it computes exactly one generation, however late
\* it comes: generation + 1, one entry appended to the history (the population
\* of the new grid, at the old index), the index advanced by one, the timestamp
\* of the last step set to the time of the call, and the grid one generation on.
C5_RateLimit ==
    LET after == update_game_of_life(lm, now)
    IN  IF USub(now, lm.game_last_update_) < lm.game_config_.update_interval_ms
        THEN after = lm
        ELSE /\ after.game_generation_ = lm.game_generation_ + 1
             /\ after.game_last_update_ = now
             /\ after.history_idx_ = (lm.history_idx_ + 1) % 30
             /\ after.population_history_[lm.history_idx_]
                    = Cardinality(Live(after.game_grid_))
             /\ \A i \in 0 .. 29 :
                    i /= lm.history_idx_
                        => after.population_history_[i] = lm.population_history_[i]
             /\ after.game_grid_back_ = lm.game_grid_
             /\ \A c \in Coords(lm) :
                    LET n == count_neighbors(lm, c[1], c[2])
                        was == get_cell(lm, c[1], c[2]) > 0
                    IN  (get_cell(after, c[1], c[2]) > 0)
                            <=> ((was /\ n \in {2, 3}) \/ (~was /\ n = 3))

\* C5 witness: a call three intervals late has computed one generation, not
\* three, with an interval longer than one reading of the clock
C5_Witness ==
    /\ lm.game_config_.update_interval_ms > 1
    /\ lm.game_generation_ = 1
    /\ lm.history_idx_ = 1
    /\ lm.game_last_update_ = now
    /\ now - lm.game_start_time_ >= 2 * lm.game_config_.update_interval_ms
    /\ Live(lm.game_grid_) /= Live(lm.game_grid_back_)

\* the counters and flags of a run that initialize_game_of_life is to reset
Bookkeeping(s) ==
    [generation |-> s.game_generation_,
     births |-> s.game_births_,
     deaths |-> s.game_deaths_,
     max_age |-> s.game_last_max_age_,
     history |-> s.population_history_,
     history_idx |-> s.history_idx_,
     history_filled |-> s.history_filled_,
     is_stable |-> s.game_is_stable_,
     stable_since |-> s.game_stable_since_,
     paused_elapsed |-> s.game_stable_paused_elapsed_,
     initialized |-> s.game_initialized_]

\* C6: from every state and for every pattern, after initialize_game_of_life
\* the generation is 0, the population history is empty (every slot 0, index 0,
\* not filled), the stable flag, the stable-since timestamp and the paused
\* elapsed time are cleared and the initialized flag is set; a second call in a
\* row leaves the same bookkeeping; and no counter of the run before is left:
\* the bookkeeping is that of the first initialize of a new object.
C6_ReseedPostState ==
    \A pattern \in PatternType :
      \A rnd \in ReseedDraws(pattern) :
        LET once == initialize_game_of_life(lm, now, pattern, rnd)
            twice == initialize_game_of_life(once, now, pattern, rnd)
            fresh == initialize_game_of_life(
                        Constructed(lm.grid_width_, lm.grid_height_, lm.game_config_),
                        now, pattern, rnd)
        IN  /\ once.game_generation_ = 0
            /\ \A i \in 0 .. 29 : once.population_history_[i] = 0
            /\ once.history_idx_ = 0
            /\ ~once.history_filled_
            /\ ~once.game_is_stable_
            /\ once.game_stable_since_ = 0
            /\ once.game_stable_paused_elapsed_ = 0
            /\ once.game_initialized_
            /\ Bookkeeping(twice) = Bookkeeping(once)
            /\ Bookkeeping(once) = Bookkeeping(fresh)

(***************************************************************************)
(* Properties of the classification of a generation (SpecEngine).          *)
(***************************************************************************)
\* the population of the grid of s
Population(s) == Cardinality(Live(s.game_grid_))

\* the 30 slots of the population history hold one value
FlatHistory(s) ==
    \A i, j \in 0 .. 29 : s.population_history_[i] = s.population_history_[j]

\* C8: a completed step whose population is not 0 and is not caught by the
\* low-population rule (it is 58 or more, or auto-reset is disabled) records its
\* population in the slot of its number, generation N into slot (N - 1) mod 30,
\* and leaves the other slots, so that from N = 30 on the 30 slots are the last
\* 30 populations; after it the stable flag and is_stable() are false when
\* N < 30, whatever the populations, and when N >= 30 they are true exactly
\* when the 30 slots are equal.  So 30 equal populations set the flag on the
\* 30th step and it stays set while the populations stay equal.
C8_FlatStability ==
    [][(/\ CompletedStep
        /\ Population(lm') > 0
        /\ Population(lm') >= 58 \/ ~lm.game_config_.auto_reset_on_stable)
       => /\ lm'.game_generation_ = lm.game_generation_ + 1
          /\ lm'.population_history_[(lm'.game_generation_ - 1) % 30] = Population(lm')
          /\ \A i \in 0 .. 29 :
                i /= (lm'.game_generation_ - 1) % 30
                    => lm'.population_history_[i] = lm.population_history_[i]
          /\ lm'.game_is_stable_ <=> is_stable(lm')
          /\ lm'.game_generation_ < 30 => ~lm'.game_is_stable_
          /\ lm'.game_generation_ >= 30 => (lm'.game_is_stable_ <=> FlatHistory(lm'))]_vars

\* C8 witness: the 30th step of a run of 30 equal populations of 58, with
\* auto-reset enabled, has set the flag at the time of that step
C8_Witness ==
    /\ lm.game_generation_ = 30
    /\ lm.game_config_.auto_reset_on_stable
    /\ Population(lm) = 58
    /\ FlatHistory(lm)
    /\ lm.game_is_stable_
    /\ lm.game_stable_since_ = now
    /\ lm.game_last_update_ = now

\* C9: after a completed step with 0 < population < 58 and auto-reset enabled
\* the stable flag is set; the stable-since timestamp is the time of the step
\* when the flag was clear before it and is unchanged when the flag was set
\* before it and is set after it.  With auto-reset disabled a population that is
\* not 0 sets the flag only when the history is filled and flat.
C9_LowPopulation ==
    [][CompletedStep
       => /\ (/\ 0 < Population(lm')
               /\ Population(lm') < 58
               /\ lm.game_config_.auto_reset_on_stable)
                => /\ lm'.game_is_stable_
                   /\ ~lm.game_is_stable_ => lm'.game_stable_since_ = now
          /\ (lm.game_is_stable_ /\ lm'.game_is_stable_)
                => lm'.game_stable_since_ = lm.game_stable_since_
          /\ (/\ ~lm.game_config_.auto_reset_on_stable
               /\ lm'.game_is_stable_)
                => lm'.history_filled_ /\ FlatHistory(lm')]_vars

\* C9 witness: a population of 57 with auto-reset enabled, stable since the
\* first step and still counting from it two steps later
C9_Witness ==
    /\ lm.game_config_.auto_reset_on_stable
    /\ Population(lm) = 57
    /\ lm.game_generation_ = 3
    /\ lm.game_is_stable_
    /\ lm.game_stable_since_ = lm.game_start_time_ + lm.game_config_.update_interval_ms
    /\ lm.game_stable_since_ < lm.game_last_update_

\* C10: a completed step publishes to each sensor that is set exactly when it
\* takes the stable flag from clear to set, by either rule: then the generation
\* sensor receives one value, the generation of that step, and the population
\* sensor one value, its population; on every other completed step neither
\* sensor receives anything.
C10_StableEdgeTelemetry ==
    [][CompletedStep
       => IF ~lm.game_is_stable_ /\ lm'.game_is_stable_
          THEN /\ lm.gol_final_generation_sensor_.set
                    => lm'.gol_final_generation_sensor_
                        = [set |-> TRUE,
                           state |-> lm'.game_generation_,
                           published |-> lm.gol_final_generation_sensor_.published + 1]
               /\ lm.gol_final_population_sensor_.set
                    => lm'.gol_final_population_sensor_
                        = [set |-> TRUE,
                           state |-> Population(lm'),
                           published |-> lm.gol_final_population_sensor_.published + 1]
          ELSE /\ lm'.gol_final_generation_sensor_ = lm.gol_final_generation_sensor_
               /\ lm'.gol_final_population_sensor_ = lm.gol_final_population_sensor_]_vars

\* C10 witness: the second report of a run, made on the step that took the
\* flag back from clear to set, several steps after the first
C10_Witness ==
    /\ lm.gol_final_generation_sensor_.published = 2
    /\ lm.gol_final_population_sensor_.published = 2
    /\ lm.gol_final_generation_sensor_.state = lm.game_generation_
    /\ lm.gol_final_population_sensor_.state = Population(lm)
    /\ lm.game_is_stable_
    /\ lm.game_stable_since_ = now

(***************************************************************************)
(* Properties of the lifecycle (Spec).                                     *)
(***************************************************************************)
\* a step completed with population 0 leaves the reset requested
ExtinctStepResets ==
    (/\ lm'.game_generation_ = lm.game_generation_ + 1
     /\ Population(lm') = 0)
        => /\ lm'.game_reset_animation_
           /\ lm'.game_reset_animation_start_ = now
           /\ lm'.game_demo_mode_
           /\ lm'.game_demo_start_time_ = now
           /\ ~lm'.game_is_stable_
           /\ lm'.game_stable_since_ = 0

C11_ExtinctionTelemetry ==
    [][(CompletedStep /\ Population(lm') = 0)
       => /\ lm.gol_final_generation_sensor_.set
                => lm'.gol_final_generation_sensor_
                    = [set |-> TRUE,
                       state |-> lm'.game_generation_,
                       published |-> lm.gol_final_generation_sensor_.published + 1]
          /\ lm.gol_final_population_sensor_.set
                => lm'.gol_final_population_sensor_
                    = [set |-> TRUE,
                       state |-> 0,
                       published |-> lm.gol_final_population_sensor_.published + 1]]_vars

\* the members a step or a reset writes: the grid, the counters of the
\* generation, the population history, the stable flag and the two flags and
\* timestamps of a reset
EngineState(s) ==
    [grid |-> s.game_grid_,
     generation |-> s.game_generation_,
     births |-> s.game_births_,
     deaths |-> s.game_deaths_,
     history |-> s.population_history_,
     history_idx |-> s.history_idx_,
     history_filled |-> s.history_filled_,
     is_stable |-> s.game_is_stable_,
     reset_animation |-> s.game_reset_animation_,
     reset_animation_start |-> s.game_reset_animation_start_,
     demo_mode |-> s.game_demo_mode_,
     demo_start_time |-> s.game_demo_start_time_]

\* C12: in every state, a call of loop() made while the automaton screen is not
\* the current screen, or while the demo flag or the reset-animation flag is
\* set, leaves the grid, the generation, births and deaths, the population
\* history and the stable flag as they are and requests no reset, whatever the
\* time elapsed since the last step or since the automaton became stable.
C12_StepSuppressed ==
    (\/ get_current_screen_id(lm) /= SCREEN_GAME_OF_LIFE
     \/ lm.game_demo_mode_
     \/ lm.game_reset_animation_)
        => EngineState(loop(lm, now)) = EngineState(lm)

\* C12 witness: loop() has seen the automaton screen hidden while the automaton
\* is stable, a step is due and the countdown of the auto-reset has run out
C12_Witness ==
    /\ get_current_screen_id(lm) /= SCREEN_GAME_OF_LIFE
    /\ ~lm.gol_was_visible_
    /\ lm.game_is_stable_
    /\ lm.game_config_.auto_reset_on_stable
    /\ StepDue(lm, now)
    /\ USub(now, lm.game_stable_since_) >= lm.game_config_.stability_timeout_ms
    /\ USub(now, lm.game_stable_since_)
            > lm.game_stable_paused_elapsed_ + lm.game_config_.stability_timeout_ms

\* C13: in every state with the pause flag set, in any UI mode, a call of
\* loop() neither advances the current screen index nor steps the automaton
\* (the generation and the grid stay as they are), whatever the time elapsed.
C13_PauseFreezes ==
    lm.ui_paused_
        => LET after == loop(lm, now)
           IN  /\ after.current_screen_idx_ = lm.current_screen_idx_
               /\ after.game_generation_ = lm.game_generation_
               /\ after.game_grid_ = lm.game_grid_

\* C14: in every state the stable flag is set only in a run that is neither
\* in its demo nor in its reset animation, and a call of loop() made in such
\* a run with the automaton screen visible, after whose step the stable flag
\* is set, requests a reset exactly
\* when auto-reset-on-stable is enabled and now - stable_since has reached
\* stability_timeout_ms: so the reset comes in the first such call and in none
\* before it, and with auto-reset disabled it never comes, however long the
\* automaton has been stable.  (A step that ends with population 0 clears the
\* flag: the extinction is not a case of this claim.)
C14_CountdownExpiry ==
    LET gol_visible == get_current_screen_id(lm) = SCREEN_GAME_OF_LIFE
        updated == update_game_of_life(TrackVisibility(lm, now, gol_visible), now)
        after == loop(lm, now)
    IN  /\ lm.game_is_stable_
            => (lm.game_initialized_ /\ ~lm.game_demo_mode_ /\ ~lm.game_reset_animation_)
        /\ (/\ gol_visible
             /\ lm.game_initialized_ /\ ~lm.game_demo_mode_ /\ ~lm.game_reset_animation_
             /\ updated.game_is_stable_)
            => IF /\ lm.game_config_.auto_reset_on_stable
                  /\ USub(now, updated.game_stable_since_)
                        >= lm.game_config_.stability_timeout_ms
               THEN /\ after.game_reset_animation_
                    /\ after.game_reset_animation_start_ = now
                    /\ ~after.game_is_stable_
               ELSE /\ ~after.game_reset_animation_
                    /\ after.game_is_stable_
                    /\ after.game_stable_since_ = updated.game_stable_since_

\* C14 witness: with auto-reset disabled the automaton has been stable and
\* visible for longer than the timeout, loop() has run at this reading of the
\* clock and no reset has been requested
C14_Witness ==
    /\ ~lm.game_config_.auto_reset_on_stable
    /\ get_current_screen_id(lm) = SCREEN_GAME_OF_LIFE
    /\ lm.game_is_stable_
    /\ lm.game_last_update_ = now
    /\ USub(now, lm.game_stable_since_) > lm.game_config_.stability_timeout_ms
    /\ ~lm.game_reset_animation_
    /\ ~lm.game_demo_mode_

\* C15: in every state with the stable flag set, a call of loop() that finds
\* the automaton screen newly hidden captures the elapsed countdown e = now -
\* stable_since, for every e >= 0, and leaves the countdown as it is; a call
\* that finds it still hidden keeps e; and a call that finds it revealed
\* counts from e again, whatever the time spent hidden: if the flag is still
\* set after the call then now - stable_since = e, and the countdown requests
\* a reset in that call only if e itself has reached the timeout.  Each hide
\* captures anew, so the same holds for every hide and reveal of a countdown.
C15_ElapsedIntegrity ==
    LET gol_visible == get_current_screen_id(lm) = SCREEN_GAME_OF_LIFE
        after == loop(lm, now)
        e == lm.game_stable_paused_elapsed_
    IN  lm.game_is_stable_
            => /\ (~gol_visible /\ lm.gol_was_visible_)
                    => /\ after.game_stable_paused_elapsed_
                            = USub(now, lm.game_stable_since_)
                       /\ after.game_stable_since_ = lm.game_stable_since_
               /\ (~gol_visible /\ ~lm.gol_was_visible_)
                    => /\ after.game_stable_paused_elapsed_ = e
                       /\ after.game_stable_since_ = lm.game_stable_since_
               /\ (gol_visible /\ ~lm.gol_was_visible_)
                    => /\ after.game_is_stable_
                            => USub(now, after.game_stable_since_) = e
                       /\ (after.game_reset_animation_ /\ Population(after) > 0)
                            => e >= lm.game_config_.stability_timeout_ms

(***************************************************************************)
(* Properties of the reset, the demo and the seeding.                      *)
(***************************************************************************)
\* the lifecycle state the flags stand for: the reset animation is shown while
\* its flag is set, the demo while the demo flag alone is set
Lifecycle(s) ==
    IF ~s.game_initialized_ THEN "UNINITIALIZED"
    ELSE IF s.game_reset_animation_ THEN "RESET_ANIMATION"
    ELSE IF s.game_demo_mode_ THEN "DEMO"
    ELSE "RUNNING"

\* the order of the lifecycle states across one handler
LifecycleOrder ==
    /\ Lifecycle(lm) = "RESET_ANIMATION"
        => /\ Lifecycle(lm') \in {"RESET_ANIMATION", "DEMO"}
           /\ lm'.game_grid_ = lm.game_grid_
           /\ lm'.game_generation_ = lm.game_generation_
    /\ Lifecycle(lm) = "DEMO"
        => Lifecycle(lm') \in {"DEMO", "RUNNING"}
    /\ Lifecycle(lm) = "RUNNING"
        => Lifecycle(lm') \in {"RUNNING", "RESET_ANIMATION"}

\* C16: reset_game_of_life changes neither the grid nor the generation; and
\* every handler leaves RESET_ANIMATION only for DEMO, with the grid and the
\* generation as they were (no step and no reseed before the demo is shown),
\* leaves DEMO only for RUNNING and leaves RUNNING only for RESET_ANIMATION,
\* whenever loop(), render() and next_screen() are called.
C16_ResetThroughDemo ==
    /\ [](/\ reset_game_of_life(lm, now).game_grid_ = lm.game_grid_
           /\ reset_game_of_life(lm, now).game_generation_ = lm.game_generation_)
    /\ [][LifecycleOrder]_vars

\* the earliest reading of the clock at which the demo of s can have been
\* entered: setup for the demo of the startup and, after a reset, the end of
\* the reset animation, which render_game_of_life ends 1000 ms after the
\* reset at the earliest (no reset is requested at reading 0, the startup
\* demo taking 5 s)
DemoEntered(s) ==
    IF s.game_reset_animation_start_ > 0
    THEN s.game_reset_animation_start_ + 1000
    ELSE s.game_demo_start_time_

\* C17: every handler that leaves DEMO does so 5000 ms or more after the demo
\* was entered, at startup or at the end of the reset animation, and leaves
\* the lifecycle RUNNING with generation 0 and the grid initialize seeds for
\* PATTERN_MIXED when complex_patterns is on and PATTERN_RANDOM when it is off.
C17_DemoDuration ==
    [][(Lifecycle(lm) = "DEMO" /\ Lifecycle(lm') /= "DEMO")
        => /\ USub(now, DemoEntered(lm)) >= 5000
           /\ Lifecycle(lm') = "RUNNING"
           /\ lm'.game_generation_ = 0
           /\ \E rnd \in LoopDraws :
                lm'.game_grid_
                    = initialize_game_of_life(
                        lm, now,
                        IF lm.game_config_.complex_patterns
                        THEN PATTERN_MIXED ELSE PATTERN_RANDOM,
                        rnd).game_grid_]_vars

\* the object with the automaton screen, the first one registered, made the
\* current screen
Shown(s, t) == set_current_screen(s, t, 0)

\* C18: in every state of the demo or of the reset animation, the lifecycle
\* state that loop() and render() leave at this reading of the clock is the
\* one they leave when the automaton screen is the current screen; and once
\* the reset animation has lasted 1000 ms they leave it, whichever screen is
\* current.
C18_TimingIgnoresVisibility ==
    \A rnd \in LoopDraws :
        LET after == render(loop(lm, now), now, rnd)
            shown == render(loop(Shown(lm, now), now), now, rnd)
        IN  /\ Lifecycle(lm) \in {"DEMO", "RESET_ANIMATION"}
                => Lifecycle(after) = Lifecycle(shown)
            /\ (/\ Lifecycle(lm) = "RESET_ANIMATION"
                 /\ USub(now, lm.game_reset_animation_start_) >= 1000)
                => Lifecycle(after) /= "RESET_ANIMATION"

\* the cells a shape covers with its corner at (x, y)
Placed(x, y, shape) ==
    {<<x + shape[k][1], y + shape[k][2]>> : k \in 1 .. Len(shape)}

\* the cells of the catalogue of the MIXED seed at its fixed offsets
CatalogueCells ==
    Placed(5, 15, R_PentominoShape) \cup Placed(10, 50, AcornShape)
        \cup Placed(15, 85, DiehardShape) \cup Placed(3, 10, GliderShape)
        \cup Placed(20, 30, GliderShape) \cup Placed(8, 100, GliderShape)

\* C19: in every state, whatever the dimensions and the complex-patterns
\* toggle, after initialize_game_of_life(PATTERN_MIXED) every cell of the
\* catalogue is alive with age 1, so the grid is not empty, and every other
\* live cell is one the random noise set and has age 1.
C19_MixedSeeding ==
    \A rnd \in ReseedDraws(PATTERN_MIXED) :
        LET seeded == initialize_game_of_life(lm, now, PATTERN_MIXED, rnd)
        IN  /\ \A c \in CatalogueCells : get_cell(seeded, c[1], c[2]) = 1
            /\ Live(seeded.game_grid_) /= {}
            /\ \A c \in Coords(seeded) :
                    get_cell(seeded, c[1], c[2]) > 0
                        => /\ get_cell(seeded, c[1], c[2]) = 1
                           /\ c \in CatalogueCells \cup rnd

(***************************************************************************)
(* Properties of the navigation (SpecUI).                                  *)
(***************************************************************************)
\* C20: in every state with an enabled screen, in any UI mode, after
\* next_screen() and after prev_screen() the mode is MANUAL_BROWSE and the
\* timestamp of the last input is the time of the call; so check_ui_timeout
\* leaves MANUAL_BROWSE up to 9999 ms after the call and returns to AUTO_CYCLE
\* 10000 ms after it.
C20_NavigationForcesManual ==
    lm.enabled_screen_ids_ /= <<>>
        => \A after \in {next_screen(lm, now), prev_screen(lm, now)} :
            /\ after.ui_mode_ = MANUAL_BROWSE
            /\ after.ui_last_input_ms_ = now
            /\ check_ui_timeout(after, now).ui_mode_ = MANUAL_BROWSE
            /\ check_ui_timeout(after, now + 9999).ui_mode_ = MANUAL_BROWSE
            /\ check_ui_timeout(after, now + 10000).ui_mode_ = AUTO_CYCLE

\* C20 witness: the navigation comes in SETTINGS, seconds after the last
\* input, and moves to another screen
C20_Witness ==
    /\ lm.ui_mode_ = SETTINGS
    /\ lm.ui_last_input_ms_ + 2000 <= now
    /\ Len(lm.enabled_screen_ids_) > 1
    /\ next_screen(lm, now).current_screen_idx_ /= lm.current_screen_idx_
    /\ prev_screen(lm, now).current_screen_idx_ /= lm.current_screen_idx_

(***************************************************************************)
(* Properties of the idle UI (SpecIdle).                                   *)
(***************************************************************************)
\* C21: in every state, a tick (loop) at the current reading of the clock,
\* and one 9999 ms and one 10000 ms after the last input, gives: from
\* MANUAL_BROWSE with at least 10000 ms since the last input the mode
\* AUTO_CYCLE; from SETTINGS with at least 10000 ms since the last input the
\* mode MANUAL_BROWSE and the settings cursor 0; with less than 10000 ms
\* since the last input the mode and the cursor as they were; and from
\* AUTO_CYCLE always AUTO_CYCLE.
C21_IdleTimeouts ==
    \A t \in {now, lm.ui_last_input_ms_ + 9999, lm.ui_last_input_ms_ + 10000} :
        LET after == loop(lm, t)
            elapsed == USub(t, lm.ui_last_input_ms_)
        IN  /\ lm.ui_mode_ = MANUAL_BROWSE /\ elapsed >= 10000
                => after.ui_mode_ = AUTO_CYCLE
            /\ lm.ui_mode_ = SETTINGS /\ elapsed >= 10000
                => /\ after.ui_mode_ = MANUAL_BROWSE
                   /\ after.settings_cursor_ = 0
            /\ elapsed < 10000
                => /\ after.ui_mode_ = lm.ui_mode_
                   /\ after.settings_cursor_ = lm.settings_cursor_
            /\ lm.ui_mode_ = AUTO_CYCLE => after.ui_mode_ = AUTO_CYCLE

\* C21 witness: SETTINGS with the cursor moved, exactly 10000 ms after the
\* last input, a later input than the start of the run, and the tick not
\* yet run
C21_Witness ==
    /\ lm.ui_mode_ = SETTINGS
    /\ lm.settings_cursor_ = IdleCursor
    /\ lm.ui_last_input_ms_ > 0
    /\ now = lm.ui_last_input_ms_ + 10000
    /\ loop(lm, now).ui_mode_ = MANUAL_BROWSE

\* the auto-cycle is held back: the automaton screen is the current one and
\* shows its demo or its reset animation
CycleHeld(s) ==
    /\ get_current_screen_id(s) = SCREEN_GAME_OF_LIFE
    /\ s.game_demo_mode_ \/ s.game_reset_animation_

\* the dwell time has passed since the last switch
DwellPassed(s, t) == USub(t, s.last_switch_time_) >= s.screen_cycle_time_ * 1000

\* what a tick does to the current screen, given the object as the
\* auto-cycle of that tick finds it: held back, it leaves the index; else it
\* moves to the next enabled screen (wrapping) and records the time exactly
\* when the dwell time has passed
AdvancesWhenDue(before, after, t) ==
    /\ CycleHeld(before)
        => after.current_screen_idx_ = before.current_screen_idx_
    /\ ~CycleHeld(before) /\ DwellPassed(before, t)
        => /\ after.current_screen_idx_ =
                (before.current_screen_idx_ + 1) % Len(before.enabled_screen_ids_)
           /\ after.last_switch_time_ = t
    /\ ~CycleHeld(before) /\ ~DwellPassed(before, t)
        => /\ after.current_screen_idx_ = before.current_screen_idx_
           /\ after.last_switch_time_ = before.last_switch_time_

\* C22 as claimed: in every state in AUTO_CYCLE with a non-empty enabled
\* list, a tick advances the current index to the next enabled screen
\* (wrapping) and records the switch time exactly when the dwell time has
\* passed since the last switch, and never while the automaton screen shows
\* its demo or reset animation.
C22_AutoCycleAdvance ==
    LET before == StepPhase(lm, now)
    IN  before.ui_mode_ = AUTO_CYCLE /\ before.enabled_screen_ids_ /= <<>>
            => AdvancesWhenDue(before, loop(lm, now), now)

\* C22 as amended: the same of every state in AUTO_CYCLE that is not paused;
\* a paused UI keeps its current index and its switch time in every tick.
C22_AutoCycleAdvanceUnpaused ==
    LET before == StepPhase(lm, now)
        after == loop(lm, now)
    IN  before.ui_mode_ = AUTO_CYCLE /\ before.enabled_screen_ids_ /= <<>>
            => IF before.ui_paused_
               THEN /\ after.current_screen_idx_ = before.current_screen_idx_
                    /\ after.last_switch_time_ = before.last_switch_time_
               ELSE AdvancesWhenDue(before, after, now)

\* C22 witness: AUTO_CYCLE, not paused, on the last enabled screen, exactly
\* the default dwell time after a switch later than the start of the run:
\* the tick wraps to the first screen
C22_Witness ==
    /\ lm.ui_mode_ = AUTO_CYCLE
    /\ ~lm.ui_paused_
    /\ lm.screen_cycle_time_ = 3
    /\ lm.last_switch_time_ > 0
    /\ now = lm.last_switch_time_ + 3000
    /\ lm.current_screen_idx_ = Len(lm.enabled_screen_ids_) - 1
    /\ loop(lm, now).current_screen_idx_ = 0
    /\ loop(lm, now).last_switch_time_ = now

\* a step that changes the mode to AUTO_CYCLE or to SETTINGS leaves the
\* time of the step in last_switch_time_
ModeEntryResetsTimer ==
    lm'.ui_mode_ /= lm.ui_mode_ /\ lm'.ui_mode_ \in {AUTO_CYCLE, SETTINGS}
        => lm'.last_switch_time_ = now'

\* set_ui_mode to AUTO_CYCLE or SETTINGS from another mode, and a tick whose
\* idle timeout enters AUTO_CYCLE, set last_switch_time_ to the time of the
\* call; and the auto-cycle leaves the index alone at the entry and up to
\* 1 ms before the dwell time has passed since the entry
DwellAfterEntry ==
    LET ticked == loop(lm, now)
        dwell == lm.screen_cycle_time_ * 1000
        entries ==
            {set_ui_mode(lm, now, mode) :
                mode \in {AUTO_CYCLE, SETTINGS} \ {lm.ui_mode_}}
                \cup (IF ticked.ui_mode_ = AUTO_CYCLE /\ lm.ui_mode_ /= AUTO_CYCLE
                      THEN {ticked} ELSE {})
    IN  \A entered \in entries :
            /\ entered.last_switch_time_ = now
            /\ \A d \in {0, dwell - 1} :
                    d >= 0 /\ d < dwell
                        => update_screen_cycle(entered, now + d).current_screen_idx_
                                = entered.current_screen_idx_

\* C23: every step that changes the UI mode to AUTO_CYCLE or to SETTINGS, by
\* set_ui_mode or by an idle timeout, sets the last-switch timestamp to the
\* current time, so that the auto-cycle does not advance before a full dwell
\* time has passed since the entry, whatever time was spent in other modes.
C23_EntryResetsDwell ==
    /\ [](DwellAfterEntry)
    /\ [][ModeEntryResetsTimer]_vars

\* C23 witness: MANUAL_BROWSE for 10000 ms, on a screen that does not hold
\* the auto-cycle back, with the last switch more than the dwell time ago:
\* the tick enters AUTO_CYCLE and does not advance
C23_Witness ==
    /\ lm.ui_mode_ = MANUAL_BROWSE
    /\ ~lm.ui_paused_
    /\ ~CycleHeld(StepPhase(lm, now))
    /\ lm.screen_cycle_time_ = 3
    /\ now = lm.ui_last_input_ms_ + 10000
    /\ now > lm.last_switch_time_ + 3000
    /\ loop(lm, now).ui_mode_ = AUTO_CYCLE
    /\ loop(lm, now).current_screen_idx_ = lm.current_screen_idx_

(***************************************************************************)
(* Properties of the registration of screens (SpecScreens).                *)
(***************************************************************************)
\* C24: in every state, for every screen id that is the current screen,
\* wherever it stands in the enabled list, if register_screen(id, false)
\* leaves another screen enabled then right after it the current screen is
\* the first enabled screen in registration order.
C24_FallbackOnDisable ==
    \A screen_id \in ScreenIds :
        LET after == register_screen(lm, screen_id, FALSE)
        IN  /\ get_current_screen_id(lm) = screen_id
            /\ after.enabled_screen_ids_ /= <<>>
            => get_current_screen_id(after) = EnabledIds(after.screens_)[1]

\* the position of a screen id in the list of registered screens, 0 when
\* it is not registered
RegisteredAt(s, screen_id) ==
    IF \E k \in 1 .. Len(s.screens_) : s.screens_[k].id = screen_id
    THEN CHOOSE k \in 1 .. Len(s.screens_) : s.screens_[k].id = screen_id
    ELSE 0

\* the enabled list is the registered screens with the flag set, in
\* registration order, and no id is registered twice
EnabledListConsistent(s) ==
    LET chosen == SelectSeq(s.screens_, LAMBDA c : c.enabled)
    IN  /\ s.enabled_screen_ids_ = [k \in 1 .. Len(chosen) |-> chosen[k].id]
        /\ \A j, k \in 1 .. Len(s.screens_) :
                s.screens_[j].id = s.screens_[k].id => j = k

\* register_screen(screen_id, enabled) keeps the screens registered before
\* where they are, sets the flag of a registered id in place and appends a
\* new id at the end
RegistersInPlace(s, screen_id, enabled) ==
    LET after == register_screen(s, screen_id, enabled)
        at == RegisteredAt(s, screen_id)
        entry == [id |-> screen_id, enabled |-> enabled]
    IN  /\ EnabledListConsistent(after)
        /\ IF at = 0
           THEN after.screens_ = Append(s.screens_, entry)
           ELSE after.screens_ = [s.screens_ EXCEPT ![at] = entry]

\* next_screen() moves from a current enabled screen to its successor in the
\* enabled list, the first one after the last
NextIsSuccessor(s, t) ==
    LET at == s.current_screen_idx_ + 1
        size == Len(s.enabled_screen_ids_)
    IN  get_current_screen_id(s) /= -1
            => get_current_screen_id(next_screen(s, t))
                    = s.enabled_screen_ids_[IF at = size THEN 1 ELSE at + 1]

\* with exactly one enabled screen and that one shown, next_screen() stays
\* on it; once a screen registered after it (or not registered yet) is
\* enabled, next_screen() moves to that screen
OneThenTwo(s, t) ==
    Len(s.enabled_screen_ids_) = 1 /\ get_current_screen_id(s) /= -1
        => /\ get_current_screen_id(next_screen(s, t)) = s.enabled_screen_ids_[1]
           /\ \A second \in ScreenIds :
                LET at == RegisteredAt(s, second)
                    two == register_screen(next_screen(s, t), second, TRUE)
                IN  /\ second /= s.enabled_screen_ids_[1]
                    /\ at = 0 \/ at > RegisteredAt(s, s.enabled_screen_ids_[1])
                    => get_current_screen_id(next_screen(two, t)) = second

UIState(s) ==
    <<s.current_screen_idx_, s.ui_mode_, s.ui_last_input_ms_, s.last_switch_time_>>

\* C26: in every state with no enabled screen, current_screen_id() is -1,
\* and next_screen(), prev_screen(), set_current_screen(i) for every index
\* and the auto-cycle advance, at the current time and after the dwell time,
\* leave the current index, the UI mode and the timestamps of the last
\* input and of the last switch as they are.
C26_EmptyListNoOps ==
    lm.enabled_screen_ids_ = <<>>
        => /\ get_current_screen_id(lm) = -1
           /\ UIState(next_screen(lm, now)) = UIState(lm)
           /\ UIState(prev_screen(lm, now)) = UIState(lm)
           /\ \A screen_idx \in ScreenIndexes :
                UIState(set_current_screen(lm, now, screen_idx)) = UIState(lm)
           /\ \A t \in {now, now + lm.screen_cycle_time_ * 1000} :
                UIState(update_screen_cycle(lm, t)) = UIState(lm)

\* C26 witness: every registered screen disabled, with the index left at a
\* later position, in AUTO_CYCLE with the dwell time passed
C26_Witness ==
    /\ lm.screens_ /= <<>>
    /\ lm.enabled_screen_ids_ = <<>>
    /\ lm.current_screen_idx_ > 0
    /\ lm.ui_mode_ = AUTO_CYCLE
    /\ now >= lm.last_switch_time_ + lm.screen_cycle_time_ * 1000

\* C29: in every state reached by register_screen, next_screen, prev_screen,
\* set_current_screen and ticks, if a screen is enabled then the current
\* index is at least 0 and less than the number of enabled screens and
\* current_screen_id() is the id of an enabled screen; it is -1 only when no
\* screen is enabled.
C29_IndexValid ==
    /\ lm.enabled_screen_ids_ /= <<>>
        => /\ lm.current_screen_idx_ >= 0
           /\ lm.current_screen_idx_ < Len(lm.enabled_screen_ids_)
           /\ \E k \in 1 .. Len(lm.screens_) :
                /\ lm.screens_[k].enabled
                /\ lm.screens_[k].id = get_current_screen_id(lm)
    /\ get_current_screen_id(lm) = -1 => lm.enabled_screen_ids_ = <<>>

(***************************************************************************)
(* Properties of the order of a tick (SpecIdle).                           *)
(***************************************************************************)
\* a tick whose phases run in the order UI timeout check, visibility
\* handling, step, auto-cycle advance
TimeoutFirstTick(s, t) ==
    IF s.ota_in_progress_ THEN s
    ELSE update_screen_cycle(StepPhase(check_ui_timeout(s, t), t), t)

\* C27: in every state a tick (loop) gives what its four phases give in the
\* order UI timeout check, visibility handling, automaton step, auto-cycle
\* advance: a mode timeout that falls due in the tick is applied before the
\* auto-cycle decision of that tick.
C27_TickOrder == loop(lm, now) = TimeoutFirstTick(lm, now)

(***************************************************************************)
(* Properties of the population history (SpecEngine).                      *)
(***************************************************************************)
\* history_filled_ is set exactly from the 30th completed step after an
\* initialize on
FilledFromThirtieth == lm.history_filled_ <=> lm.game_generation_ >= HistoryLen

\* C28 as claimed: in every state the stable flag implies history_filled,
\* and history_filled is set exactly when at least 30 steps have completed
\* since the last initialize.
C28_StableNeedsHistory ==
    /\ lm.game_is_stable_ => lm.history_filled_
    /\ FilledFromThirtieth

\* C28 as amended: in every state the stable flag implies history_filled or
\* a population below the low-population floor with auto-reset enabled, and
\* history_filled is set exactly when at least 30 steps have completed since
\* the last initialize.
C28_StableNeedsHistoryOrLow ==
    /\ lm.game_is_stable_
        => \/ lm.history_filled_
           \/ /\ lm.game_config_.auto_reset_on_stable
              /\ Population(lm) < LowPopulationFloor
    /\ FilledFromThirtieth

\* C28 witness: the 30th step after an initialize has just set
\* history_filled and the stable flag, on a flat population at or above the
\* floor
C28_Witness ==
    /\ lm.game_generation_ = HistoryLen
    /\ lm.history_filled_
    /\ lm.game_is_stable_
    /\ Population(lm) >= LowPopulationFloor
    /\ lm.game_stable_since_ = lm.game_last_update_

(***************************************************************************)
(* Properties of the reset (SpecReset).                                    *)
(***************************************************************************)
\* a reset or the demo of the start is in progress
ResetInProgress(s) == s.game_reset_animation_ \/ s.game_demo_mode_

\* RUNNING on a fresh world: both flags cleared, generation 0, the
\* population history empty and the stable flag cleared
Recovered(s) ==
    /\ s.game_initialized_
    /\ ~s.game_reset_animation_
    /\ ~s.game_demo_mode_
    /\ s.game_generation_ = 0
    /\ \A i \in 0 .. (HistoryLen - 1) : s.population_history_[i] = 0
    /\ s.history_idx_ = 0
    /\ ~s.history_filled_
    /\ ~s.game_is_stable_

\* no step starts a reset over while one is in progress: the timestamps of
\* the animation and of the demo stay
NoResetDuringReset ==
    ResetInProgress(lm)
        => /\ lm'.game_reset_animation_start_ = lm.game_reset_animation_start_
           /\ lm'.game_demo_start_time_ = lm.game_demo_start_time_
           /\ lm'.game_reset_animation_ => lm.game_reset_animation_

\* C30: with the automaton screen the current one and loop() and render()
\* called in every frame, every reset (and the demo of the start) whose 5 s
\* end within the run leads to RUNNING with both flags cleared, generation
\* 0, an empty population history and a cleared stable flag; from there,
\* with two update intervals left in the run, the first generation is
\* computed; and no step starts a reset over while the animation or the
\* demo is in progress.
C30_ResetCompletes ==
    /\ (/\ ResetInProgress(lm)
        /\ lm.game_demo_start_time_ + 5000 < ResetSeconds * 1000)
            ~> Recovered(lm)
    /\ (/\ Recovered(lm)
        /\ lm.game_last_update_ + 2 * lm.game_config_.update_interval_ms
                <= ResetSeconds * 1000)
            ~> lm.game_generation_ = 1
    /\ [][NoResetDuringReset]_vars

\* C30 witness: RUNNING on a fresh world, seeded by the render() of the
\* frame 5 s after a reset, with the 1 s of the animation and the demo over
C30_Witness ==
    /\ Recovered(lm)
    /\ lm.game_reset_animation_start_ > 0
    /\ lm.game_start_time_ = lm.game_reset_animation_start_ + 5000 + 1
    /\ now = lm.game_start_time_ + 999

====
